---- MODULE Spec2Model ----
(***************************************************************************)
(* Model of profitcalc.py, the single-unit e-commerce profit calculator.   *)
(*                                                                         *)
(* The script is a Streamlit page: every change of a widget re-runs the    *)
(* whole file from the top.  Its numbers are Python floats, i.e. IEEE-754  *)
(* binary64, and the model computes with them bit for bit: a double is the *)
(* record [sgn, man, exp] of value (-1)^sgn * man * 2^exp, the mantissa is *)
(* an arbitrary-precision natural (a little-endian sequence of 15-bit      *)
(* limbs), and every operation rounds to nearest, ties to even.            *)
(***************************************************************************)
EXTENDS Integers, Sequences, FiniteSets

----------------------------------------------------------------------------
(* Arbitrary-precision naturals: <<l1, l2, ...>> is l1 + l2*Base + ...,    *)
(* without high zero limbs; <<>> is 0.                                     *)

LimbBits == 15
Base == 32768

RECURSIVE Pow2(_)
Pow2(n) == IF n = 0 THEN 1 ELSE 2 * Pow2(n - 1)

Limb(a, i) == IF i <= Len(a) THEN a[i] ELSE 0

RECURSIVE BNorm(_)
BNorm(a) ==
  IF a = <<>> THEN a
  ELSE IF a[Len(a)] = 0 THEN BNorm(SubSeq(a, 1, Len(a) - 1)) ELSE a

RECURSIVE BFromInt(_)
BFromInt(n) == IF n = 0 THEN <<>> ELSE <<n % Base>> \o BFromInt(n \div Base)

RECURSIVE BAddC(_, _, _, _)
BAddC(a, b, i, c) ==
  IF i > Len(a) /\ i > Len(b)
  THEN (IF c = 0 THEN <<>> ELSE <<c>>)
  ELSE LET s == Limb(a, i) + Limb(b, i) + c
       IN  <<s % Base>> \o BAddC(a, b, i + 1, s \div Base)

BAdd(a, b) == BAddC(a, b, 1, 0)

RECURSIVE BSubC(_, _, _, _)
BSubC(a, b, i, c) ==
  IF i > Len(a) THEN <<>>
  ELSE LET d == a[i] - Limb(b, i) - c
       IN  IF d < 0 THEN <<d + Base>> \o BSubC(a, b, i + 1, 1)
           ELSE <<d>> \o BSubC(a, b, i + 1, 0)

\* a - b, for a >= b
BSub(a, b) == BNorm(BSubC(a, b, 1, 0))

RECURSIVE BCmpAt(_, _, _)
BCmpAt(a, b, i) ==
  IF i = 0 THEN 0
  ELSE IF a[i] > b[i] THEN 1
  ELSE IF a[i] < b[i] THEN -1
  ELSE BCmpAt(a, b, i - 1)

\* -1, 0, 1 as a < b, a = b, a > b
BCmp(a, b) ==
  IF Len(a) > Len(b) THEN 1
  ELSE IF Len(a) < Len(b) THEN -1
  ELSE BCmpAt(a, b, Len(a))

RECURSIVE BMulSmallC(_, _, _, _)
BMulSmallC(a, k, i, c) ==
  IF i > Len(a)
  THEN (IF c = 0 THEN <<>> ELSE <<c>>)
  ELSE LET s == a[i] * k + c
       IN  <<s % Base>> \o BMulSmallC(a, k, i + 1, s \div Base)

\* a * k, for 0 <= k < Base
BMulSmall(a, k) == IF k = 0 THEN <<>> ELSE BMulSmallC(a, k, 1, 0)

BShiftLimbs(a, n) == IF a = <<>> THEN a ELSE [i \in 1..n |-> 0] \o a

RECURSIVE BMulAt(_, _, _)
BMulAt(a, b, j) ==
  IF j > Len(b) THEN <<>>
  ELSE BAdd(BShiftLimbs(BMulSmall(a, b[j]), j - 1), BMulAt(a, b, j + 1))

BMul(a, b) == BMulAt(a, b, 1)

RECURSIVE BDivSmallAt(_, _, _, _)
BDivSmallAt(a, k, i, r) ==
  IF i = 0 THEN <<>>
  ELSE LET t == r * Base + a[i]
       IN  BDivSmallAt(a, k, i - 1, t % k) \o <<t \div k>>

\* floor(a / k), for 0 < k <= Base
BDivSmall(a, k) == BNorm(BDivSmallAt(a, k, Len(a), 0))

\* a * 2^n
BShl(a, n) == BShiftLimbs(BMulSmall(a, Pow2(n % LimbBits)), n \div LimbBits)

\* floor(a / 2^n)
BShr(a, n) ==
  LET k == n \div LimbBits
  IN  IF k >= Len(a) THEN <<>>
      ELSE BDivSmall(SubSeq(a, k + 1, Len(a)), Pow2(n % LimbBits))

RECURSIVE BitLenSmall(_)
BitLenSmall(n) == IF n = 0 THEN 0 ELSE 1 + BitLenSmall(n \div 2)

BBitLen(a) ==
  IF a = <<>> THEN 0 ELSE LimbBits * (Len(a) - 1) + BitLenSmall(a[Len(a)])

BIsOdd(a) == a # <<>> /\ a[1] % 2 = 1

RECURSIVE BDigit(_, _, _, _)
\* the largest d in lo..hi with b * d <= r, given b * lo <= r
BDigit(r, b, lo, hi) ==
  IF lo = hi THEN lo
  ELSE LET mid == (lo + hi + 1) \div 2
       IN  IF BCmp(BMulSmall(b, mid), r) <= 0
           THEN BDigit(r, b, mid, hi)
           ELSE BDigit(r, b, lo, mid - 1)

RECURSIVE BDivFrom(_, _, _)
\* quotient and remainder by b of the number made of the limbs i.. of a:
\* schoolbook long division, one limb of quotient per step
BDivFrom(a, b, i) ==
  IF i > Len(a) THEN [quo |-> <<>>, rem |-> <<>>]
  ELSE LET p  == BDivFrom(a, b, i + 1)
           r2 == BNorm(<<a[i]>> \o p.rem)
           d  == BDigit(r2, b, 0, Base - 1)
       IN  [quo |-> BNorm(<<d>> \o p.quo), rem |-> BSub(r2, BMulSmall(b, d))]

\* quotient and remainder of a by b # 0
BDivMod(a, b) == BDivFrom(a, b, 1)

RECURSIVE BPow10(_)
BPow10(k) == IF k = 0 THEN <<1>> ELSE BMulSmall(BPow10(k - 1), 10)

----------------------------------------------------------------------------
(* IEEE-754 binary64.  [sgn, man, exp] is (-1)^sgn * man * 2^exp.  A       *)
(* double is such a record in canonical form: zero has man = <<>> and      *)
(* exp = 0 (and keeps its sign), a normal number has a mantissa of exactly *)
(* MantBits bits, a subnormal one has exp = MinExp.  The same record, not  *)
(* canonical, is an exact (unrounded) dyadic value.  As in the binary64    *)
(* encoding, the exponent above the largest one marks the special values:  *)
(* with an empty mantissa an infinity, with any other one a nan.           *)

MantBits == 53
MinExp == -1074
MaxExp == 971
InfExp == MaxExp + 1

Dy(s, m, e) == [sgn |-> s, man |-> m, exp |-> e]

Inf(s) == Dy(s, <<>>, InfExp)
NaN == Dy(0, <<1>>, InfExp)

IsNaN(x) == x.exp = InfExp /\ x.man # <<>>
IsInf(x) == x.exp = InfExp /\ x.man = <<>>
IsZero(x) == x.exp # InfExp /\ x.man = <<>>

Max(a, b) == IF a > b THEN a ELSE b
Min(a, b) == IF a < b THEN a ELSE b

\* (-1)^s * q * 2^e1 for a mantissa q that fits, or the infinity it
\* overflows to
FOverflow(s, q, e1) == IF e1 > MaxExp THEN Inf(s) ELSE Dy(s, q, e1)

\* the double (-1)^s * q * 2^e1, for q of at most MantBits bits or 2^MantBits
FPack(s, q, e1) ==
  IF q = <<>> THEN Dy(s, <<>>, 0)
  ELSE IF BBitLen(q) > MantBits THEN FOverflow(s, BShr(q, 1), e1 + 1)
  ELSE FOverflow(s, q, e1)

\* -1, 0, 1 as m - q * 2^sh is below, at or above the half 2^(sh-1)
FHalfCmp(m, q, sh) ==
  BCmp(BMulSmall(BSub(m, BShl(q, sh)), 2), BShl(<<1>>, sh))

\* q or q + 1: up above the half, and at the half when something was
\* dropped before (sticky) or q is odd
FNearest(q, c, sticky) ==
  IF c > 0 \/ (c = 0 /\ (sticky \/ BIsOdd(q))) THEN BAdd(q, <<1>>) ELSE q

\* m * 2^e rounded to a mantissa at the exponent e1
FRoundAt(s, m, e, e1, sticky) ==
  IF e1 <= e THEN FOverflow(s, BShl(m, e - e1), e1)
  ELSE FPack(s, FNearest(BShr(m, e1 - e),
                         FHalfCmp(m, BShr(m, e1 - e), e1 - e), sticky), e1)

\* the double nearest to (-1)^s * (m + t) * 2^e, where 0 < t < 1 if sticky
\* and t = 0 otherwise; ties go to the even mantissa, and a value too large
\* for a double becomes an infinity
FRound(s, m, e, sticky) ==
  IF m = <<>> THEN Dy(s, <<>>, 0)
  ELSE FRoundAt(s, m, e, Max(MinExp, e + BBitLen(m) - MantBits), sticky)

FNeg(x) == IF IsNaN(x) THEN NaN ELSE Dy(1 - x.sgn, x.man, x.exp)

\* (-1)^sx * mx + (-1)^sy * my, at the exponent e
XAddAligned(sx, mx, sy, my, e) ==
  IF sx = sy THEN Dy(sx, BAdd(mx, my), e)
  ELSE IF BCmp(mx, my) = 0 THEN Dy(0, <<>>, e)
  ELSE IF BCmp(mx, my) > 0 THEN Dy(sx, BSub(mx, my), e)
  ELSE Dy(sy, BSub(my, mx), e)

XAddAt(x, y, e) ==
  XAddAligned(x.sgn, BShl(x.man, x.exp - e), y.sgn, BShl(y.man, y.exp - e), e)

\* exact sum; x + (-x) is +0, (-0) + (-0) is -0
XAdd(x, y) == XAddAt(x, y, IF x.exp < y.exp THEN x.exp ELSE y.exp)

XSub(x, y) == XAdd(x, FNeg(y))

XMul(x, y) == Dy((x.sgn + y.sgn) % 2, BMul(x.man, y.man), x.exp + y.exp)

XAbs(x) == Dy(0, x.man, x.exp)

\* -1, 0, 1 as x is negative, a zero, positive (x no nan)
XSign(x) == IF IsZero(x) THEN 0 ELSE IF x.sgn = 1 THEN -1 ELSE 1

\* the position above the leading bit of a finite x # 0
Top(x) == x.exp + BBitLen(x.man)

\* -1, 0, 1 as |x| < |y|, |x| = |y|, |x| > |y|, for x # 0 and y # 0
MagCmp(x, y) ==
  IF IsInf(x) THEN (IF IsInf(y) THEN 0 ELSE 1)
  ELSE IF IsInf(y) THEN -1
  ELSE IF Top(x) > Top(y) THEN 1
  ELSE IF Top(x) < Top(y) THEN -1
  ELSE BCmp(BShl(x.man, x.exp - Min(x.exp, y.exp)),
            BShl(y.man, y.exp - Min(x.exp, y.exp)))

\* -1, 0, 1 as x < y, x = y, x > y (the two zeros are equal), for x and y
\* no nan
XCmp(x, y) ==
  IF XSign(x) > XSign(y) THEN 1
  ELSE IF XSign(x) < XSign(y) THEN -1
  ELSE IF XSign(x) = 0 THEN 0
  ELSE XSign(x) * MagCmp(x, y)

\* the double nearest to the exact value z
FExact(z) == FRound(z.sgn, z.man, z.exp, FALSE)

\* y is below 2^(-11) of the last place of x # 0: x + y rounds to x
Absorbs(x, y) == x.man # <<>> /\ x.exp - y.exp > MantBits + 11

\* float.__add__: inf + (-inf) is nan
FAdd(x, y) ==
  IF IsNaN(x) \/ IsNaN(y) THEN NaN
  ELSE IF IsInf(x) THEN (IF IsInf(y) /\ x.sgn # y.sgn THEN NaN ELSE x)
  ELSE IF IsInf(y) THEN y
  ELSE IF Absorbs(x, y) THEN x
  ELSE IF Absorbs(y, x) THEN y
  ELSE FExact(XAdd(x, y))

\* float.__sub__
FSub(x, y) == FAdd(x, FNeg(y))

\* float.__mul__: inf * 0 is nan
FMul(x, y) ==
  IF IsNaN(x) \/ IsNaN(y) THEN NaN
  ELSE IF IsInf(x) \/ IsInf(y)
       THEN (IF IsZero(x) \/ IsZero(y) THEN NaN
             ELSE Inf((x.sgn + y.sgn) % 2))
  ELSE FExact(XMul(x, y))

\* the double nearest to (-1)^s * (d.quo + d.rem / divisor) * 2^e
FQuotRound(s, d, e) == FRound(s, d.quo, e, d.rem # <<>>)

\* x / y from the integer division of x.man * 2^k by y.man
FQuotBy(x, y, k) ==
  FQuotRound((x.sgn + y.sgn) % 2, BDivMod(BShl(x.man, k), y.man),
             x.exp - k - y.exp)

\* the correctly rounded quotient x / y, for finite x and y # 0
FQuot(x, y) ==
  IF x.man = <<>> THEN Dy((x.sgn + y.sgn) % 2, <<>>, 0)
  ELSE FQuotBy(x, y, Max(0, MantBits + 2 + BBitLen(y.man) - BBitLen(x.man)))

\* float.__truediv__: a zero divisor raises ZeroDivisionError, whatever is
\* divided; inf / inf is nan, and a finite number over inf is a zero
ZeroDivisionError == [raised |-> "ZeroDivisionError"]
FDiv(x, y) ==
  IF IsZero(y) THEN ZeroDivisionError
  ELSE IF IsNaN(x) \/ IsNaN(y) THEN NaN
  ELSE IF IsInf(x)
       THEN (IF IsInf(y) THEN NaN ELSE Inf((x.sgn + y.sgn) % 2))
  ELSE IF IsInf(y) THEN Dy((x.sgn + y.sgn) % 2, <<>>, 0)
  ELSE FQuot(x, y)

\* float comparisons: every one but != is false on a nan
FEq(x, y) == ~IsNaN(x) /\ ~IsNaN(y) /\ XCmp(x, y) = 0
FLt(x, y) == ~IsNaN(x) /\ ~IsNaN(y) /\ XCmp(x, y) < 0
FGt(x, y) == ~IsNaN(x) /\ ~IsNaN(y) /\ XCmp(x, y) > 0
FLe(x, y) == ~IsNaN(x) /\ ~IsNaN(y) /\ XCmp(x, y) <= 0
FGe(x, y) == ~IsNaN(x) /\ ~IsNaN(y) /\ XCmp(x, y) >= 0

\* the float literal n * 10^(-k), n an integer and k >= 0
Dec(n, k) ==
  FQuot(Dy(IF n < 0 THEN 1 ELSE 0, BFromInt(IF n < 0 THEN -n ELSE n), 0),
        Dy(0, BPow10(k), 0))

\* x is a finite double (not an exception, not an infinity, not a nan)
IsDouble(x) ==
  /\ DOMAIN x = {"sgn", "man", "exp"}
  /\ x.exp <= MaxExp
  /\ BBitLen(x.man) <= MantBits

\* x is a float: a finite double, an infinity or a nan (not an exception)
IsFloat(x) ==
  /\ DOMAIN x = {"sgn", "man", "exp"}
  /\ (x.exp <= MaxExp /\ BBitLen(x.man) <= MantBits) \/ x.exp = InfExp

\* sys.float_info.max, the largest finite double: (2^53 - 1) * 2^971
MaxDouble == Dy(0, BSub(BShl(<<1>>, MantBits), <<1>>), MaxExp)

----------------------------------------------------------------------------
(* profitcalc.py                                                           *)

\* the int 0 and the float 0.0 of the script: equal, and displayed alike
Zero == Dy(0, <<>>, 0)

Raised(v) == v = ZeroDivisionError

\* the literals 0.029 and 0.30
FeeRate == Dec(29, 3)
FixedFee == Dec(30, 2)

\* faulty variant: the fixed 0.30 is left out
FeesWithoutFixedPart(p) == FMul(FeeRate, p)

calculate_shopify_fees(p) == FAdd(FMul(FeeRate, p), FixedFee)

\* faulty variant: the division is guarded by > 0 instead of != 0
BreakevenPositiveOnly(p, c, fees) ==
  LET ad_spend_breakeven == FSub(FSub(p, c), fees)
      roas == IF FGt(ad_spend_breakeven, Zero)
              THEN FDiv(p, ad_spend_breakeven)
              ELSE Zero
  IN  IF Raised(roas) THEN ZeroDivisionError
      ELSE [breakeven_cpa |-> ad_spend_breakeven, breakeven_roas |-> roas]

\* faulty variant: the fees are not subtracted
BreakevenIgnoringFees(p, c, fees) ==
  LET ad_spend_breakeven == FSub(p, c)
      roas == IF ~FEq(ad_spend_breakeven, Zero)
              THEN FDiv(p, ad_spend_breakeven)
              ELSE Zero
  IN  IF Raised(roas) THEN ZeroDivisionError
      ELSE [breakeven_cpa |-> ad_spend_breakeven, breakeven_roas |-> roas]

\* the returned dict, or the exception the division raises
calculate_breakeven_metrics(p, c, fees) ==
  LET ad_spend_breakeven == FSub(FSub(p, c), fees)
      roas == IF ~FEq(ad_spend_breakeven, Zero)
              THEN FDiv(p, ad_spend_breakeven)
              ELSE Zero
  IN  IF Raised(roas) THEN ZeroDivisionError
      ELSE [breakeven_cpa |-> ad_spend_breakeven, breakeven_roas |-> roas]

\* faulty variant: the derived ROAS is ad spend over price
ModeCPAInvertedRoas(p, d_cpa) ==
  [ad_spend   |-> d_cpa,
   final_roas |-> IF FGt(d_cpa, Zero) /\ ~FEq(p, Zero)
                  THEN FDiv(d_cpa, p) ELSE Zero,
   final_cpa  |-> d_cpa]

\* faulty variant: the division is not guarded
ModeCPAUnguarded(p, d_cpa) ==
  [ad_spend |-> d_cpa, final_roas |-> FDiv(p, d_cpa), final_cpa |-> d_cpa]

\* the branch calculation_mode == "CPA"
ModeCPA(p, d_cpa) ==
  [ad_spend   |-> d_cpa,
   final_roas |-> IF FGt(d_cpa, Zero) THEN FDiv(p, d_cpa) ELSE Zero,
   final_cpa  |-> d_cpa]

\* faulty variant: the division is not guarded
ModeROASUnguarded(p, d_roas) ==
  LET a == FDiv(p, d_roas)
  IN  [ad_spend |-> a, final_cpa |-> a, final_roas |-> d_roas]

\* faulty variant: the ad spend is price times ROAS
ModeROASMultiplies(p, d_roas) ==
  IF FGt(d_roas, Zero)
  THEN LET a == FMul(p, d_roas)
       IN  [ad_spend |-> a, final_cpa |-> a, final_roas |-> d_roas]
  ELSE [ad_spend |-> Zero, final_cpa |-> Zero, final_roas |-> Zero]

\* the else branch (ROAS)
ModeROAS(p, d_roas) ==
  IF FGt(d_roas, Zero)
  THEN LET a == FDiv(p, d_roas)
       IN  [ad_spend |-> a, final_cpa |-> a, final_roas |-> d_roas]
  ELSE [ad_spend |-> Zero, final_cpa |-> Zero, final_roas |-> Zero]

\* faulty variant: a negative profit is clamped to 0
ProfitClamped(p, c, fees, ad) ==
  LET d == FSub(FSub(FSub(p, c), fees), ad)
  IN  IF FLt(d, Zero) THEN Zero ELSE d

Profit(p, c, fees, ad) == FSub(FSub(FSub(p, c), fees), ad)

labels == <<"COGS", "Shopify Fees", "Ad Spend", "Profit">>

ChartValues(c, fees, ad, pr) == <<c, fees, ad, pr>>

\* px.pie(names=labels, values=values) or px.bar(x=labels, y=values)
Chart(ct, vals) ==
  [kind |-> IF ct = "Pie Chart" THEN "pie" ELSE "bar",
   names |-> labels, values |-> vals]

\* if calculation_mode == "CPA": ... else: ...
ModeLogic(m, p, d_cpa, d_roas) ==
  IF m = "CPA" THEN ModeCPA(p, d_cpa) ELSE ModeROAS(p, d_roas)

\* d[k], or the exception that left d without a value
Item(d, k) == IF Raised(d) THEN d ELSE d[k]

VARIABLES product_price, cogs, calculation_mode, desired_cpa, desired_roas,
          chart_type, status, shopify_fees, breakeven_data, breakeven_cpa,
          breakeven_roas, ad_spend, final_cpa, final_roas, profit, fig

inputs == <<product_price, cogs, calculation_mode, desired_cpa, desired_roas,
            chart_type>>
outputs == <<status, shopify_fees, breakeven_data, breakeven_cpa,
             breakeven_roas, ad_spend, final_cpa, final_roas, profit, fig>>
vars == <<inputs, outputs>>

\* the values of the number_input widgets when first rendered
DefaultPrice == Dec(8299, 2)
DefaultCogs == Dec(10, 0)
DefaultCpa == Dec(20, 0)
DefaultRoas == Dec(2, 0)

Modes == {"CPA", "ROAS"}
ChartTypes == {"Pie Chart", "Bar Chart"}

\* how many values of each widget the model tries beyond the fixed ones
MaxPriceSteps == 2
MaxCogsSteps == 2
MaxCpaSteps == 2
MaxRoasSteps == 2

\* values typed into the widgets: min_value=0.0 admits nothing negative,
\* and without a max_value every float up to the largest one is admitted
Prices ==
  {Zero, Dec(1, 17), DefaultPrice, MaxDouble}
    \cup {Dec(550 * i, 0) : i \in 1..MaxPriceSteps}
Cogs == {Zero, DefaultCogs}
          \cup {Dec(53375 * i, 2) : i \in 1..MaxCogsSteps}
CpaValues == {Zero, DefaultCpa} \cup {Dec(30 * i, 0) : i \in 1..MaxCpaSteps}
RoasValues == {Zero, DefaultRoas, Dec(5, 1)} \cup {Dec(15 * i, 1) : i \in 1..MaxRoasSteps}

\* one run of the script from top to bottom on the widgets' new values.  A
\* division that raises ends the run: status names the exception, and a
\* variable without a value holds it too.
Rerun ==
  /\ shopify_fees' = calculate_shopify_fees(product_price')
  /\ breakeven_data' =
       calculate_breakeven_metrics(product_price', cogs', shopify_fees')
  /\ breakeven_cpa' = Item(breakeven_data', "breakeven_cpa")
  /\ breakeven_roas' = Item(breakeven_data', "breakeven_roas")
  /\ LET ml == ModeLogic(calculation_mode', product_price', desired_cpa',
                         desired_roas')
     IN  /\ ad_spend' = ml.ad_spend
         /\ final_cpa' = ml.final_cpa
         /\ final_roas' = ml.final_roas
  /\ status' = IF \/ Raised(breakeven_data')
                  \/ Raised(ad_spend')
                  \/ Raised(final_roas')
               THEN "ZeroDivisionError" ELSE "ok"
  /\ profit' = IF status' = "ok"
               THEN Profit(product_price', cogs', shopify_fees', ad_spend')
               ELSE ZeroDivisionError
  /\ fig' = IF status' = "ok"
            THEN Chart(chart_type',
                       ChartValues(cogs', shopify_fees', ad_spend', profit'))
            ELSE ZeroDivisionError

\* the page shows what a run of the script on the widgets' values leaves
Loaded ==
  /\ shopify_fees = calculate_shopify_fees(product_price)
  /\ breakeven_data =
       calculate_breakeven_metrics(product_price, cogs, shopify_fees)
  /\ breakeven_cpa = Item(breakeven_data, "breakeven_cpa")
  /\ breakeven_roas = Item(breakeven_data, "breakeven_roas")
  /\ LET ml == ModeLogic(calculation_mode, product_price, desired_cpa,
                         desired_roas)
     IN  /\ ad_spend = ml.ad_spend
         /\ final_cpa = ml.final_cpa
         /\ final_roas = ml.final_roas
  /\ status = IF \/ Raised(breakeven_data)
                 \/ Raised(ad_spend)
                 \/ Raised(final_roas)
              THEN "ZeroDivisionError" ELSE "ok"
  /\ profit = IF status = "ok"
              THEN Profit(product_price, cogs, shopify_fees, ad_spend)
              ELSE ZeroDivisionError
  /\ fig = IF status = "ok"
           THEN Chart(chart_type,
                      ChartValues(cogs, shopify_fees, ad_spend, profit))
           ELSE ZeroDivisionError

\* the page as first loaded: every widget at its default, the script run once
Init ==
  /\ product_price = DefaultPrice
  /\ cogs = DefaultCogs
  /\ calculation_mode = "CPA"
  /\ desired_cpa = DefaultCpa
  /\ desired_roas = DefaultRoas
  /\ chart_type = "Pie Chart"
  /\ Loaded

SetProductPrice(p) ==
  /\ product_price' = p
  /\ UNCHANGED <<cogs, calculation_mode, desired_cpa, desired_roas, chart_type>>
  /\ Rerun

SetCogs(c) ==
  /\ cogs' = c
  /\ UNCHANGED <<product_price, calculation_mode, desired_cpa, desired_roas,
                 chart_type>>
  /\ Rerun

\* faulty variant: the mode changes but the results are not recomputed
SetCalculationModeStale(m) ==
  /\ m # calculation_mode
  /\ calculation_mode' = m
  /\ desired_cpa' = DefaultCpa
  /\ desired_roas' = DefaultRoas
  /\ UNCHANGED <<product_price, cogs, chart_type>>
  /\ UNCHANGED outputs

\* the radio: the number_input of the branch not taken is not rendered, and
\* a widget that is not rendered comes back with its default value
SetCalculationMode(m) ==
  /\ m # calculation_mode
  /\ calculation_mode' = m
  /\ desired_cpa' = DefaultCpa
  /\ desired_roas' = DefaultRoas
  /\ UNCHANGED <<product_price, cogs, chart_type>>
  /\ Rerun

SetDesiredCpa(v) ==
  /\ calculation_mode = "CPA"
  /\ desired_cpa' = v
  /\ UNCHANGED <<product_price, cogs, calculation_mode, desired_roas,
                 chart_type>>
  /\ Rerun

SetDesiredRoas(v) ==
  /\ calculation_mode = "ROAS"
  /\ desired_roas' = v
  /\ UNCHANGED <<product_price, cogs, calculation_mode, desired_cpa,
                 chart_type>>
  /\ Rerun

SetChartType(t) ==
  /\ chart_type' = t
  /\ UNCHANGED <<product_price, cogs, calculation_mode, desired_cpa,
                 desired_roas>>
  /\ Rerun

Next ==
  \/ \E p \in Prices : SetProductPrice(p)
  \/ \E c \in Cogs : SetCogs(c)
  \/ \E m \in Modes : SetCalculationMode(m)
  \/ \E v \in CpaValues : SetDesiredCpa(v)
  \/ \E v \in RoasValues : SetDesiredRoas(v)
  \/ \E t \in ChartTypes : SetChartType(t)

Spec == Init /\ [][Next]_vars

----------------------------------------------------------------------------
(* The calculation as a function of its four arguments, applied to         *)
(* arbitrary values, negative ones included: what the spec calls           *)
(* calculate(productPrice, cogs, mode, modeValue).  Before the call the    *)
(* outputs hold Pending.                                                   *)

Pending == [pending |-> TRUE]

CorePrices == Prices \cup {Dec(-1, 0)}
CoreCogs == Cogs \cup {Dec(-30, 2), FNeg(MaxDouble)}
\* 70.28329 is the break-even CPA of the default price and COGS, and inf
\* the one of the largest price with the COGS most negative
CoreCpaValues == CpaValues \cup {Dec(-2, 0), Dec(7028329, 5), Inf(0)}
CoreRoasValues == RoasValues \cup {Dec(-2, 0)}

InitCore ==
  /\ product_price \in CorePrices
  /\ cogs \in CoreCogs
  /\ calculation_mode \in Modes
  /\ desired_cpa \in (IF calculation_mode = "CPA" THEN CoreCpaValues
                      ELSE {DefaultCpa})
  /\ desired_roas \in (IF calculation_mode = "ROAS" THEN CoreRoasValues
                       ELSE {DefaultRoas})
  /\ chart_type = "Pie Chart"
  /\ status = "pending"
  /\ shopify_fees = Pending
  /\ breakeven_data = Pending
  /\ breakeven_cpa = Pending
  /\ breakeven_roas = Pending
  /\ ad_spend = Pending
  /\ final_cpa = Pending
  /\ final_roas = Pending
  /\ profit = Pending
  /\ fig = Pending

Calculate ==
  /\ status = "pending"
  /\ UNCHANGED inputs
  /\ Rerun

NextCore == Calculate

SpecCore == InitCore /\ [][NextCore]_vars

----------------------------------------------------------------------------
(* Properties                                                              *)

Ok == status = "ok"

\* the value of the widget of the selected mode
ModeValue == IF calculation_mode = "CPA" THEN desired_cpa ELSE desired_roas

\* |a - b| <= 2^(-51) * |t|, computed exactly
Near(a, b, t) ==
  XCmp(XAbs(XSub(a, b)), Dy(0, t.man, t.exp - 51)) <= 0

\* C1: in every produced record, in either mode, profit is exactly
\* product_price - cogs - shopify_fees - ad_spend as the script evaluates it,
\* and a negative result is kept negative (never clamped).  The all-zero
\* input in CPA mode gives -0.3; the largest price at a ROAS of 0.5 gives an
\* ad spend of inf and the profit -inf.
C1_ProfitIdentity ==
  Ok => LET d == FSub(FSub(FSub(product_price, cogs), shopify_fees), ad_spend)
        IN  /\ profit = d
            /\ FLt(d, Zero) => FLt(profit, Zero)
            /\ (/\ product_price = Zero
                /\ cogs = Zero
                /\ ModeValue = Zero) => profit = Dec(-30, 2)
            /\ (/\ product_price = MaxDouble
                /\ calculation_mode = "ROAS"
                /\ desired_roas = Dec(5, 1)) =>
                 (ad_spend = Inf(0) /\ profit = Inf(1))

\* a ROAS-mode record with mode value 0 whose profit is negative
C1_Witness ==
  /\ Ok
  /\ calculation_mode = "ROAS"
  /\ desired_roas = Zero
  /\ FLt(profit, Zero)

\* C2 as stated: the fees are 0.029 * price + 0.30, at least 0.30, and
\* strictly increasing in the price (a larger price gives larger fees).
C2_FeesStrictlyIncreasing ==
  Ok => /\ shopify_fees = FAdd(FMul(FeeRate, product_price), FixedFee)
        /\ FGe(shopify_fees, FixedFee)
        /\ \A p2 \in Prices :
             FLt(product_price, p2) =>
               FLt(shopify_fees, calculate_shopify_fees(p2))

\* C2 as amended: the fees are 0.029 * price + 0.30, at least 0.30, and
\* non-decreasing in the price (a larger price never gives smaller fees).
C2_FeesNonDecreasing ==
  Ok => /\ shopify_fees = FAdd(FMul(FeeRate, product_price), FixedFee)
        /\ FGe(shopify_fees, FixedFee)
        /\ \A p2 \in Prices :
             FLt(product_price, p2) =>
               FLe(shopify_fees, calculate_shopify_fees(p2))

\* a positive price whose fees are those of the price 0, next to a larger
\* price with larger fees
C2_Witness ==
  /\ Ok
  /\ FGt(product_price, Zero)
  /\ shopify_fees = calculate_shopify_fees(Zero)
  /\ \E p2 \in Prices :
       FLt(product_price, p2) /\ FLt(shopify_fees, calculate_shopify_fees(p2))

\* C3: in CPA mode with mode value X, ad_spend = X and cpa = X; roas is
\* price / ad_spend when ad_spend > 0 and 0 otherwise; price 0, COGS 0 and
\* X = 0 give ad_spend 0, roas 0 and profit -0.30.
C3_CpaMode ==
  (Ok /\ calculation_mode = "CPA") =>
    /\ ad_spend = desired_cpa
    /\ final_cpa = desired_cpa
    /\ FGt(ad_spend, Zero) => final_roas = FDiv(product_price, ad_spend)
    /\ ~FGt(ad_spend, Zero) => FEq(final_roas, Zero)
    /\ (product_price = Zero /\ cogs = Zero /\ desired_cpa = Zero) =>
         /\ FEq(ad_spend, Zero)
         /\ FEq(final_roas, Zero)
         /\ profit = FNeg(FixedFee)

\* the all-zero CPA input, with its profit of -0.30
C3_Witness ==
  /\ Ok
  /\ calculation_mode = "CPA"
  /\ product_price = Zero
  /\ cogs = Zero
  /\ desired_cpa = Zero
  /\ FEq(final_roas, Zero)
  /\ profit = FNeg(FixedFee)

\* C4: in ROAS mode with mode value Y the run never fails; when Y > 0,
\* ad_spend = price / Y, cpa = ad_spend and roas = Y; when Y is not > 0,
\* ad_spend = cpa = roas = 0.
C4_RoasMode ==
  (status # "pending" /\ calculation_mode = "ROAS") =>
    /\ Ok
    /\ IF FGt(desired_roas, Zero)
       THEN /\ ad_spend = FDiv(product_price, desired_roas)
            /\ final_cpa = ad_spend
            /\ final_roas = desired_roas
       ELSE /\ ad_spend = Zero
            /\ final_cpa = Zero
            /\ final_roas = Zero

\* ROAS mode with mode value 0 on a positive price: the all-zero triple
C4_Witness ==
  /\ Ok
  /\ calculation_mode = "ROAS"
  /\ desired_roas = Zero
  /\ FGt(product_price, Zero)
  /\ ad_spend = Zero
  /\ final_cpa = Zero
  /\ final_roas = Zero

\* C5: breakeven_cpa = price - cogs - fees, not clamped; breakeven_roas is
\* price / breakeven_cpa when that is not 0 (negative included), and the
\* sentinel 0 when it is 0.  Price 0 and COGS 0 give -0.3 and -0.0; the
\* largest price with the COGS most negative overflows to inf, and gives
\* the ROAS price / inf = 0.0.
C5_Breakeven ==
  Ok => /\ breakeven_cpa = FSub(FSub(product_price, cogs), shopify_fees)
        /\ IF FEq(breakeven_cpa, Zero)
           THEN breakeven_roas = Zero
           ELSE breakeven_roas = FDiv(product_price, breakeven_cpa)
        /\ (product_price = Zero /\ cogs = Zero) =>
             /\ breakeven_cpa = Dec(-30, 2)
             /\ breakeven_roas = FNeg(Zero)
        /\ (product_price = MaxDouble /\ cogs = FNeg(MaxDouble)) =>
             /\ breakeven_cpa = Inf(0)
             /\ breakeven_roas = Zero

\* price 550 and COGS 533.75 break even at an ad spend of exactly 0
C5_Witness ==
  /\ Ok
  /\ FGt(product_price, Zero)
  /\ FEq(breakeven_cpa, Zero)
  /\ breakeven_roas = Zero

Results == {shopify_fees, breakeven_cpa, breakeven_roas, ad_spend, final_cpa,
            final_roas, profit}

\* 2^500 and 2^(-500)
Large == Dy(0, <<1>>, 500)
Small == Dy(0, <<1>>, -500)

\* no input is above 2^500 in magnitude, and neither divisor (the mode value
\* when positive, the break-even ad spend when not 0) is below 2^(-500)
InRange ==
  /\ \A v \in {product_price, cogs, ModeValue} : XCmp(XAbs(v), Large) <= 0
  /\ ~FGt(ModeValue, Zero) \/ XCmp(ModeValue, Small) >= 0
  /\ IsDouble(breakeven_cpa)
  /\ FEq(breakeven_cpa, Zero) \/ XCmp(XAbs(breakeven_cpa), Small) >= 0

\* C6 as stated: the calculation never fails: for every argument, zero and
\* negative ones included, it ends without an exception (no division by
\* zero is evaluated) and every value of the record is a defined (finite)
\* number.
C6_TotalFinite ==
  status # "pending" => (Ok /\ \A v \in Results : IsDouble(v))

\* C6 as amended: for every argument, zero and negative ones included, the
\* calculation ends without an exception (no division by zero is evaluated)
\* and every value of the record is a float; the values are finite numbers
\* when the arguments are in range, and may be an infinity or a nan when an
\* operation overflows.
C6_Total ==
  status # "pending" =>
    /\ Ok
    /\ \A v \in Results : IsFloat(v)
    /\ InRange => \A v \in Results : IsDouble(v)

\* a negative COGS that makes the break-even ad spend 0, in CPA mode with
\* mode value 0: both guarded divisions are skipped
C6_Witness ==
  /\ Ok
  /\ InRange
  /\ FLt(cogs, Zero)
  /\ FEq(breakeven_cpa, Zero)
  /\ calculation_mode = "CPA"
  /\ desired_cpa = Zero

C8_ChartValuesNonNegative ==
  Ok => \A i \in 1..Len(fig.values) : FGe(fig.values[i], Zero)

\* records of the program started afresh on the given inputs
FreshRuns ==
  {[price |-> Zero, cogs |-> Zero, mode |-> "CPA", value |-> Zero,
    fees |-> Dec(30, 2), ad |-> Zero, cpa |-> Zero, roas |-> Zero,
    profit |-> Dec(-30, 2), be_cpa |-> Dec(-30, 2), be_roas |-> FNeg(Zero)],
   [price |-> Dec(550, 0), cogs |-> Dec(53375, 2), mode |-> "ROAS",
    value |-> Dec(2, 0),
    fees |-> Dec(1625, 2), ad |-> Dec(275, 0), cpa |-> Dec(275, 0),
    roas |-> Dec(2, 0), profit |-> Dec(-275, 0), be_cpa |-> Zero,
    be_roas |-> Zero],
   [price |-> Dec(550, 0), cogs |-> Dec(53375, 2), mode |-> "CPA",
    value |-> Dec(20, 0),
    fees |-> Dec(1625, 2), ad |-> Dec(20, 0), cpa |-> Dec(20, 0),
    roas |-> Dec(275, 1), profit |-> Dec(-20, 0), be_cpa |-> Zero,
    be_roas |-> Zero]}

\* C9: after any sequence of input changes every result on the page is the
\* one a run of the script computes from the current price, COGS, mode and
\* mode value alone: nothing of an earlier run remains.
\* It is also the record the program prints when started afresh on these
\* inputs: FreshRuns lists such records, (0, 0, CPA, 0) giving fees 0.3,
\* profit -0.3, break-even -0.3 and -0.0, (550, 533.75, ROAS, 2) giving fees
\* 16.25, ad spend 275, profit -275, and (550, 533.75, CPA, 20) giving ad
\* spend 20, ROAS 27.5, profit -20, both with break-even 0.0 and 0.
C9_RecomputedFromInputs ==
  /\ Loaded
  /\ \A r \in FreshRuns :
       (/\ product_price = r.price
        /\ cogs = r.cogs
        /\ calculation_mode = r.mode
        /\ ModeValue = r.value) =>
         /\ Ok
         /\ shopify_fees = r.fees
         /\ ad_spend = r.ad
         /\ final_cpa = r.cpa
         /\ final_roas = r.roas
         /\ profit = r.profit
         /\ breakeven_cpa = r.be_cpa
         /\ breakeven_roas = r.be_roas

\* the inputs (550, 533.75, ROAS, 2) of a fresh run, reached in the bar
\* chart after the price, the COGS, the mode and the chart type were changed
C9_Witness ==
  /\ Ok
  /\ product_price = Dec(550, 0)
  /\ cogs = Dec(53375, 2)
  /\ calculation_mode = "ROAS"
  /\ desired_roas = DefaultRoas
  /\ chart_type = "Bar Chart"
  /\ profit = Dec(-275, 0)

\* the larger of |x| and |y|, and 2 * x
MaxAbs(x, y) == IF XCmp(XAbs(x), XAbs(y)) >= 0 THEN XAbs(x) ELSE XAbs(y)
Twice(x) == Dy(x.sgn, x.man, x.exp + 1)

\* the ROAS-mode triple for the ROAS that CPA mode derives
RoasTwin == ModeROAS(product_price, FDiv(product_price, desired_cpa))

CpaWithTwin ==
  /\ Ok
  /\ calculation_mode = "CPA"
  /\ FGt(product_price, Zero)
  /\ FGt(desired_cpa, Zero)

====
